---- MODULE Spec2Model ----
(***************************************************************************)
(* State-machine model of the whiteboard component (src/src/App.tsx): the  *)
(* React state of App, the refs it keeps, and one action per event         *)
(* handler.  Every handler runs to completion on the UI thread and React   *)
(* re-renders between two events, so a handler always reads the current    *)
(* state; the one closure that outlives a render is img.onload, whose      *)
(* captured scale is kept in the pending decode.                           *)
(***************************************************************************)
EXTENDS Integers, Sequences, FiniteSets, TLC

VARIABLES
    tool,              \* useState<Tool>                       (line 68)
    penSize,           \* useState<number>                     (line 70)
    selectedSticker,   \* useState<string>, "" when none       (line 71)
    showColorPicker,   \* useState<boolean>                    (line 72)
    showStickerPicker, \* useState<boolean>                    (line 73)
    stickers,          \* useState<StickerType[]>              (line 74)
    textBoxes,         \* useState<TextBoxType[]>              (line 75)
    images,            \* useState<ImageType[]>                (line 76)
    scale,             \* useState<number>, an IEEE double     (line 77)
    isDrawing,         \* useState<boolean>                    (line 78)
    activeTextBox,     \* useState<string | null>              (line 79)
    ctxReady,          \* contextRef.current !== null          (line 83)
    lastPosition,      \* lastPosition.current                 (line 84)
    ink,               \* the canvas bitmap: the inked canvas points
    now,               \* Date.now()
    pending,           \* images being decoded (img.src set, onload not yet run)
    objectURLs,        \* blob URLs created by URL.createObjectURL and not revoked
    urlCount,          \* number of blob URLs created so far
    lastEvent          \* the event whose handler ran last (history)

vars == << tool, penSize, selectedSticker, showColorPicker, showStickerPicker,
           stickers, textBoxes, images, scale, isDrawing, activeTextBox,
           ctxReady, lastPosition, ink, now, pending, objectURLs, urlCount,
           lastEvent >>


(***************************************************************************)
(* IEEE-754 doubles in [0.125, 4): a double v is the integer v * 2^55,     *)
(* kept as two limbs <<hi, lo>> with v * 2^55 = hi * 2^28 + lo, because    *)
(* the integers of the checker are 32 bits wide.                           *)
(***************************************************************************)
Limb == 2 ^ 28

Dbl(hi, lo) == [hi |-> hi, lo |-> lo]

\* The double nearest to 0.1: 3602879701896397 * 2^-55.
DblTenth == Dbl(13421772, 214748365)
DblHalf == Dbl(67108864, 0)
DblOne == Dbl(134217728, 0)
DblThree == Dbl(402653184, 0)

DblLess(a, b) == a.hi < b.hi \/ (a.hi = b.hi /\ a.lo < b.lo)

\* Units in the last place of a double of magnitude m, in units of 2^-55.
Ulp(m) ==
    IF m.hi >= 268435456 THEN 16
    ELSE IF m.hi >= 134217728 THEN 8
    ELSE IF m.hi >= 67108864 THEN 4
    ELSE IF m.hi >= 33554432 THEN 2
    ELSE 1

\* Round an exact value to the nearest double, ties to even.
DblRound(m) ==
    LET u == Ulp(m)
        r == m.lo % u
        down == m.lo - r
        up == IF 2 * r > u \/ (2 * r = u /\ (down \div u) % 2 = 1)
              THEN down + u ELSE down
    IN  IF up >= Limb THEN Dbl(m.hi + 1, up - Limb) ELSE Dbl(m.hi, up)

DblAdd(a, b) ==
    LET lo == a.lo + b.lo
    IN  DblRound(IF lo >= Limb THEN Dbl(a.hi + b.hi + 1, lo - Limb)
                 ELSE Dbl(a.hi + b.hi, lo))

DblSub(a, b) ==
    LET lo == a.lo - b.lo
    IN  DblRound(IF lo < 0 THEN Dbl(a.hi - b.hi - 1, lo + Limb)
                 ELSE Dbl(a.hi - b.hi, lo))

(***************************************************************************)
(* Bounds of the model and the inputs the events are drawn from.           *)
(***************************************************************************)
MaxObjs == 2      \* objects on the board, all collections together
MaxClock == 1     \* Date.now() runs over 0 .. MaxClock
MaxUrls == 2      \* blob URLs created by paste events

Tools == {"pen", "sticker", "eraser", "text", "none"}
StickerKinds == {"fas fa-heart", "fas fa-star"}
PenSizes == {3, 5}
\* Canvas pixels the pointer is put over.
CanvasTargets == {<<600, 300>>, <<60, 80>>}
\* Positions react-rnd reports at the end of a drag (d.x, d.y).
DragPoints == {<<581, 283>>, <<525, 275>>}
\* window.innerWidth, window.innerHeight.
Viewports == {<<1200, 600>>}

DEFAULT_PEN_SIZE == 3
STICKER_DEFAULT_SIZE == 50
TEXT_DEFAULT_WIDTH == 150
TEXT_DEFAULT_HEIGHT == 50
IMAGE_DEFAULT_WIDTH == 300

\* null of activeTextBox, and a field of lastEvent that does not apply.
NullId == -1
\* null of lastPosition.current.
NoPoint == << >>
\* The NaN parseInt returns; every comparison with it is false.
NaN == -2147483647

(***************************************************************************)
(* parseInt on a CSS length, a string given as its sequence of characters. *)
(***************************************************************************)
Digits == {"0", "1", "2", "3", "4", "5", "6", "7", "8", "9"}

DigitVal(c) ==
    CASE c = "0" -> 0 [] c = "1" -> 1 [] c = "2" -> 2 [] c = "3" -> 3
      [] c = "4" -> 4 [] c = "5" -> 5 [] c = "6" -> 6 [] c = "7" -> 7
      [] c = "8" -> 8 [] c = "9" -> 9

RECURSIVE SkipSpace(_)
SkipSpace(s) == IF s # << >> /\ Head(s) = " " THEN SkipSpace(Tail(s)) ELSE s

\* The value of the leading run of digits of s, after the digits read so far.
RECURSIVE ReadDigits(_, _)
ReadDigits(s, acc) ==
    IF s # << >> /\ Head(s) \in Digits
    THEN ReadDigits(Tail(s), 10 * acc + DigitVal(Head(s)))
    ELSE acc

ParseInt(str) ==
    LET s == SkipSpace(str)
        neg == s # << >> /\ Head(s) = "-"
        t == IF s # << >> /\ Head(s) \in {"-", "+"} THEN Tail(s) ELSE s
    IN  IF t = << >> \/ Head(t) \notin Digits THEN NaN
        ELSE IF neg THEN 0 - ReadDigits(t, 0) ELSE ReadDigits(t, 0)

\* ref.style.width / ref.style.height as react-rnd may leave them.
Px10 == <<"1", "0", "p", "x">>
Px0 == <<"0", "p", "x">>
Px20_5 == <<"2", "0", ".", "5", "p", "x">>
Auto == <<"a", "u", "t", "o">>

(***************************************************************************)
(* Coordinate transform.  The canvas sits in a div with CSS                *)
(* transform: scale(scale) (line 370), so the pointer over canvas pixel p  *)
(* has client offset p * scale, and the handlers divide it by scale again. *)
(* Coordinates are kept to the nearest pixel.                              *)
(***************************************************************************)
\* Every reachable scale lies within 2^-48 of a multiple of 0.1: that multiple.
Tenths(sc) == ((sc.hi \div 64) * 10 + 2 ^ 20) \div 2 ^ 21

\* e.clientX - rect.left for the pointer over canvas pixel p.
ToClient(p, sc) == (p * Tenths(sc)) \div 10

\* ToCanvas without the division by scale.
ToCanvasUnscaled(d, sc) == d

\* (e.clientX - rect.left) / scale, to the nearest pixel; the scale is never
\* below its multiple of 0.1, so a quotient half way rounds down.
ToCanvas(d, sc) == (20 * d + Tenths(sc) - 1) \div (2 * Tenths(sc))

ClientPoint(p, sc) == <<ToClient(p[1], sc), ToClient(p[2], sc)>>

ClientPoints(sc) == { ClientPoint(p, sc) : p \in CanvasTargets }

(***************************************************************************)
(* History: the event handled last.  Every action sets lastEvent after the *)
(* state it leaves.                                                        *)
(***************************************************************************)
\* Number of placed objects.
Placed == Len(stickers) + Len(textBoxes) + Len(images)

\* The objects of before that are not among after.
Gone(before, after) ==
    { before[i] : i \in 1 .. Len(before) }
        \ { after[i] : i \in 1 .. Len(after) }

\* The record of an event: its arguments, the stickers, text boxes and images
\* its handler removed and the number of objects it added.
Ev(op, id, x, y, w, h, text) ==
    [op |-> op, id |-> id, x |-> x, y |-> y, w |-> w, h |-> h, text |-> text,
     removed |-> << Gone(stickers, stickers'), Gone(textBoxes, textBoxes'),
                    Gone(images, images') >>,
     added |-> IF Len(stickers') + Len(textBoxes') + Len(images') > Placed
               THEN 1 ELSE 0]

PointerEv(op, d) == Ev(op, NullId, d[1], d[2], << >>, << >>, "")
PlainEv(op, text) == Ev(op, NullId, 0, 0, << >>, << >>, text)

Ids(seq) == { seq[i].id : i \in 1 .. Len(seq) }

Init ==
    /\ tool = "none"
    /\ penSize = DEFAULT_PEN_SIZE
    /\ selectedSticker = ""
    /\ showColorPicker = FALSE
    /\ showStickerPicker = FALSE
    /\ stickers = << >>
    /\ textBoxes = << >>
    /\ images = << >>
    /\ scale = DblOne
    /\ isDrawing = FALSE
    /\ activeTextBox = NullId
    /\ ctxReady \in BOOLEAN
    /\ lastPosition = NoPoint
    /\ ink = {}
    /\ now = 0
    /\ pending = {}
    /\ objectURLs = {}
    /\ urlCount = 0
    /\ lastEvent = [op |-> "init", id |-> NullId, x |-> 0, y |-> 0, w |-> << >>,
                    h |-> << >>, text |-> "", removed |-> << {}, {}, {} >>,
                    added |-> 0]

(***************************************************************************)
(* Toolbar and pickers.                                                    *)
(***************************************************************************)
HandleToolChange(newTool) ==
    /\ tool' = newTool
    /\ showColorPicker' = (newTool = "pen")
    /\ showStickerPicker' = (newTool = "sticker")
    /\ UNCHANGED << penSize, selectedSticker, stickers, textBoxes, images, scale,
                    isDrawing, activeTextBox, ctxReady, lastPosition, ink, now,
                    pending, objectURLs, urlCount >>
    /\ lastEvent' = PlainEv("toolChange", newTool)

\* A click on an icon of the sticker picker, which is rendered while
\* showStickerPicker holds.
StickerPick(kind) ==
    /\ showStickerPicker
    /\ selectedSticker' = kind
    /\ tool' = "sticker"
    /\ UNCHANGED << penSize, showColorPicker, showStickerPicker, stickers,
                    textBoxes, images, scale, isDrawing, activeTextBox, ctxReady,
                    lastPosition, ink, now, pending, objectURLs, urlCount >>
    /\ lastEvent' = PlainEv("stickerPick", kind)

\* The pen-size slider of the colour picker, rendered while showColorPicker holds.
SetPenSize(n) ==
    /\ showColorPicker
    /\ penSize' = n
    /\ UNCHANGED << tool, selectedSticker, showColorPicker, showStickerPicker,
                    stickers, textBoxes, images, scale, isDrawing, activeTextBox,
                    ctxReady, lastPosition, ink, now, pending, objectURLs,
                    urlCount >>
    /\ lastEvent' = Ev("penSize", NullId, n, 0, << >>, << >>, "")

(***************************************************************************)
(* Zoom.                                                                   *)
(***************************************************************************)
\* HandleZoom that also moves the placed stickers by the step.
HandleZoomShifting(direction) ==
    /\ scale' = IF direction = "in" /\ DblLess(scale, DblThree)
                THEN DblAdd(scale, DblTenth)
                ELSE IF direction = "out" /\ DblLess(DblHalf, scale)
                THEN DblSub(scale, DblTenth)
                ELSE scale
    /\ stickers' = [i \in 1 .. Len(stickers) |->
                       [stickers[i] EXCEPT !.x = IF direction = "in" THEN @ + 1
                                                 ELSE @ - 1]]
    /\ UNCHANGED << tool, penSize, selectedSticker, showColorPicker,
                    showStickerPicker, textBoxes, images, isDrawing,
                    activeTextBox, ctxReady, lastPosition, ink, now, pending,
                    objectURLs, urlCount >>
    /\ lastEvent' = PlainEv("zoom", direction)

ZoomStep(direction, prev) ==
    IF direction = "in" /\ DblLess(prev, DblThree) THEN DblAdd(prev, DblTenth)
    ELSE IF direction = "out" /\ DblLess(DblHalf, prev) THEN DblSub(prev, DblTenth)
    ELSE prev

HandleZoom(direction) ==
    /\ scale' = ZoomStep(direction, scale)
    /\ UNCHANGED << tool, penSize, selectedSticker, showColorPicker,
                    showStickerPicker, stickers, textBoxes, images, isDrawing,
                    activeTextBox, ctxReady, lastPosition, ink, now, pending,
                    objectURLs, urlCount >>
    /\ lastEvent' = PlainEv("zoom", direction)

\* Time passes between two events.
Tick ==
    /\ now < MaxClock
    /\ now' = now + 1
    /\ UNCHANGED << tool, penSize, selectedSticker, showColorPicker,
                    showStickerPicker, stickers, textBoxes, images, scale,
                    isDrawing, activeTextBox, ctxReady, lastPosition, ink,
                    pending, objectURLs, urlCount >>
    /\ lastEvent' = PlainEv("tick", "")

(***************************************************************************)
(* Pen strokes on the canvas bitmap.                                       *)
(***************************************************************************)
\* StartDrawing without the test of the tool.
StartDrawingAnyTool(d) ==
    /\ IF ~ctxReady
       THEN UNCHANGED << isDrawing, lastPosition >>
       ELSE /\ isDrawing' = TRUE
            /\ lastPosition' = <<ToCanvas(d[1], scale), ToCanvas(d[2], scale)>>
    /\ UNCHANGED << tool, penSize, selectedSticker, showColorPicker,
                    showStickerPicker, stickers, textBoxes, images, scale,
                    activeTextBox, ctxReady, ink, now, pending, objectURLs,
                    urlCount >>
    /\ lastEvent' = PointerEv("mousedown", d)

\* StartDrawing without the test of contextRef.current.
StartDrawingNoContext(d) ==
    /\ IF tool # "pen"
       THEN UNCHANGED << isDrawing, lastPosition >>
       ELSE /\ isDrawing' = TRUE
            /\ lastPosition' = <<ToCanvas(d[1], scale), ToCanvas(d[2], scale)>>
    /\ UNCHANGED << tool, penSize, selectedSticker, showColorPicker,
                    showStickerPicker, stickers, textBoxes, images, scale,
                    activeTextBox, ctxReady, ink, now, pending, objectURLs,
                    urlCount >>
    /\ lastEvent' = PointerEv("mousedown", d)

\* onMouseDown
StartDrawing(d) ==
    /\ IF tool # "pen" \/ ~ctxReady
       THEN UNCHANGED << isDrawing, lastPosition >>
       ELSE /\ isDrawing' = TRUE
            /\ lastPosition' = <<ToCanvas(d[1], scale), ToCanvas(d[2], scale)>>
    /\ UNCHANGED << tool, penSize, selectedSticker, showColorPicker,
                    showStickerPicker, stickers, textBoxes, images, scale,
                    activeTextBox, ctxReady, ink, now, pending, objectURLs,
                    urlCount >>
    /\ lastEvent' = PointerEv("mousedown", d)

\* draw: lineTo(x, y) and stroke() ink the segment from the last position.
Draw(d) ==
    IF ~isDrawing \/ tool # "pen" \/ ~ctxReady \/ lastPosition = NoPoint
    THEN UNCHANGED << ink, lastPosition >>
    ELSE LET pt == <<ToCanvas(d[1], scale), ToCanvas(d[2], scale)>>
         IN  /\ ink' = ink \cup {lastPosition, pt}
             /\ lastPosition' = pt

\* StopDrawing with setIsDrawing(!isDrawing) for setIsDrawing(false).
StopDrawingToggle(op) ==
    /\ isDrawing' = ~isDrawing
    /\ lastPosition' = NoPoint
    /\ UNCHANGED << tool, penSize, selectedSticker, showColorPicker,
                    showStickerPicker, stickers, textBoxes, images, scale,
                    activeTextBox, ctxReady, ink, now, pending, objectURLs,
                    urlCount >>
    /\ lastEvent' = PlainEv(op, IF isDrawing THEN "drawing" ELSE "idle")

\* onMouseUp and onMouseLeave: closePath() inks nothing.  The event records
\* whether a stroke was in progress when it arrived.
StopDrawing(op) ==
    /\ isDrawing' = FALSE
    /\ lastPosition' = NoPoint
    /\ UNCHANGED << tool, penSize, selectedSticker, showColorPicker,
                    showStickerPicker, stickers, textBoxes, images, scale,
                    activeTextBox, ctxReady, ink, now, pending, objectURLs,
                    urlCount >>
    /\ lastEvent' = PlainEv(op, IF isDrawing THEN "drawing" ELSE "idle")

(***************************************************************************)
(* Eraser.                                                                 *)
(***************************************************************************)
\* Math.sqrt(dx^2 + dy^2) > radius for the centre (cx2 / 2, cy2 / 2), given
\* doubled so that width / 2 stays exact.
FartherThan(cx2, cy2, x, y, radius) ==
    (cx2 - 2 * x) * (cx2 - 2 * x) + (cy2 - 2 * y) * (cy2 - 2 * y)
        > (2 * radius) * (2 * radius)

\* Survives with the comparison distance >= radius.
SurvivesOnEdge(o, x, y, radius) ==
    /\ o.width # NaN
    /\ o.height # NaN
    /\ (2 * o.x + o.width - 2 * x) * (2 * o.x + o.width - 2 * x)
       + (2 * o.y + o.height - 2 * y) * (2 * o.y + o.height - 2 * y)
           >= (2 * radius) * (2 * radius)

\* The filter predicate of erase: the object's centre is farther than radius
\* from (x, y).  A NaN width or height makes the distance NaN, and NaN > radius
\* is false.
Survives(o, x, y, radius) ==
    /\ o.width # NaN
    /\ o.height # NaN
    /\ FartherThan(2 * o.x + o.width, 2 * o.y + o.height, x, y, radius)

EraseRadius(size) == size * 2

Erase(d) ==
    IF tool # "eraser" \/ ~ctxReady
    THEN UNCHANGED << ink, stickers, textBoxes, images >>
    ELSE LET x == ToCanvas(d[1], scale)
             y == ToCanvas(d[2], scale)
             radius == EraseRadius(penSize)
             Keep(o) == Survives(o, x, y, radius)
         IN  /\ ink' = { q \in ink : FartherThan(2 * q[1], 2 * q[2], x, y, radius) }
             /\ stickers' = SelectSeq(stickers, Keep)
             /\ textBoxes' = SelectSeq(textBoxes, Keep)
             /\ images' = SelectSeq(images, Keep)

\* onMouseMove
MouseMove(d) ==
    /\ IF isDrawing /\ tool = "pen"
       THEN Draw(d) /\ UNCHANGED << stickers, textBoxes, images >>
       ELSE IF tool = "eraser"
       THEN Erase(d) /\ UNCHANGED lastPosition
       ELSE UNCHANGED << ink, lastPosition, stickers, textBoxes, images >>
    /\ UNCHANGED << tool, penSize, selectedSticker, showColorPicker,
                    showStickerPicker, scale, isDrawing, activeTextBox, ctxReady,
                    now, pending, objectURLs, urlCount >>
    /\ lastEvent' = PointerEv("mousemove", d)

(***************************************************************************)
(* Placement: onClick of the canvas.                                       *)
(***************************************************************************)
NewSticker(id, kind, x, y) ==
    [id |-> id, type |-> kind, x |-> x, y |-> y,
     width |-> STICKER_DEFAULT_SIZE, height |-> STICKER_DEFAULT_SIZE]

\* NewTextBox with the default size of a sticker.
NewTextBoxStickerSize(id, x, y) ==
    [id |-> id, x |-> x, y |-> y, width |-> STICKER_DEFAULT_SIZE,
     height |-> STICKER_DEFAULT_SIZE, content |-> ""]

NewTextBox(id, x, y) ==
    [id |-> id, x |-> x, y |-> y, width |-> TEXT_DEFAULT_WIDTH,
     height |-> TEXT_DEFAULT_HEIGHT, content |-> ""]

HandleCanvasClick(d) ==
    LET x == ToCanvas(d[1], scale)
        y == ToCanvas(d[2], scale)
    IN  /\ IF tool = "sticker" /\ selectedSticker # ""
           THEN /\ Placed < MaxObjs
                /\ stickers' = Append(stickers, NewSticker(now, selectedSticker, x, y))
                /\ selectedSticker' = ""
                /\ tool' = "none"
                /\ UNCHANGED << textBoxes, images, activeTextBox, ink >>
           ELSE IF tool = "text"
           THEN /\ Placed < MaxObjs
                /\ textBoxes' = Append(textBoxes, NewTextBox(now, x, y))
                /\ activeTextBox' = now
                /\ tool' = "none"
                /\ UNCHANGED << stickers, images, selectedSticker, ink >>
           ELSE IF tool = "eraser"
           THEN /\ Erase(d)
                /\ UNCHANGED << tool, selectedSticker, activeTextBox >>
           ELSE UNCHANGED << tool, selectedSticker, activeTextBox, stickers,
                             textBoxes, images, ink >>
        /\ UNCHANGED << penSize, showColorPicker, showStickerPicker, scale,
                        isDrawing, ctxReady, lastPosition, now, pending,
                        objectURLs, urlCount >>
        /\ lastEvent' = PointerEv("click", d)

(***************************************************************************)
(* Drag, resize and edit of placed objects (react-rnd callbacks).  The     *)
(* callback of an object closes over its id; a gesture that began before   *)
(* the object was erased still reports that id, so the id ranges over      *)
(* every id that can have been given out.                                  *)
(***************************************************************************)
\* MoveTo that puts the moved object last, on top of the others.
MoveToFront(seq, id, x, y) ==
    LET Other(o) == o.id # id
        Hit(o) == o.id = id
        moved == SelectSeq(seq, Hit)
    IN  SelectSeq(seq, Other)
            \o [i \in 1 .. Len(moved) |-> [moved[i] EXCEPT !.x = x, !.y = y]]

\* prev.map(o => o.id === id ? {...o, x: d.x, y: d.y} : o)
MoveTo(seq, id, x, y) ==
    [i \in 1 .. Len(seq) |->
        IF seq[i].id = id THEN [seq[i] EXCEPT !.x = x, !.y = y] ELSE seq[i]]

\* prev.map(o => o.id === id ? {...o, width: parseInt(ref.style.width),
\*     height: parseInt(ref.style.height), x: position.x, y: position.y} : o)
ResizeTo(seq, id, w, h, x, y) ==
    [i \in 1 .. Len(seq) |->
        IF seq[i].id = id
        THEN [seq[i] EXCEPT !.width = ParseInt(w), !.height = ParseInt(h),
                            !.x = x, !.y = y]
        ELSE seq[i]]

\* SetContent without the test of the id.
SetContentAll(seq, id, text) ==
    [i \in 1 .. Len(seq) |-> [seq[i] EXCEPT !.content = text]]

\* prev.map(t => t.id === id ? {...t, content: e.target.value} : t)
SetContent(seq, id, text) ==
    [i \in 1 .. Len(seq) |->
        IF seq[i].id = id THEN [seq[i] EXCEPT !.content = text] ELSE seq[i]]

StickerDragStop(id, p) ==
    /\ stickers' = MoveTo(stickers, id, p[1], p[2])
    /\ UNCHANGED << tool, penSize, selectedSticker, showColorPicker,
                    showStickerPicker, textBoxes, images, scale, isDrawing,
                    activeTextBox, ctxReady, lastPosition, ink, now, pending,
                    objectURLs, urlCount >>
    /\ lastEvent' = Ev("stickerDrag", id, p[1], p[2], << >>, << >>, "")

StickerResizeStop(id, size, p) ==
    /\ stickers' = ResizeTo(stickers, id, size[1], size[2], p[1], p[2])
    /\ UNCHANGED << tool, penSize, selectedSticker, showColorPicker,
                    showStickerPicker, textBoxes, images, scale, isDrawing,
                    activeTextBox, ctxReady, lastPosition, ink, now, pending,
                    objectURLs, urlCount >>
    /\ lastEvent' = Ev("stickerResize", id, p[1], p[2], size[1], size[2], "")

TextDragStop(id, p) ==
    /\ textBoxes' = MoveTo(textBoxes, id, p[1], p[2])
    /\ UNCHANGED << tool, penSize, selectedSticker, showColorPicker,
                    showStickerPicker, stickers, images, scale, isDrawing,
                    activeTextBox, ctxReady, lastPosition, ink, now, pending,
                    objectURLs, urlCount >>
    /\ lastEvent' = Ev("textDrag", id, p[1], p[2], << >>, << >>, "")

TextResizeStop(id, size, p) ==
    /\ textBoxes' = ResizeTo(textBoxes, id, size[1], size[2], p[1], p[2])
    /\ UNCHANGED << tool, penSize, selectedSticker, showColorPicker,
                    showStickerPicker, stickers, images, scale, isDrawing,
                    activeTextBox, ctxReady, lastPosition, ink, now, pending,
                    objectURLs, urlCount >>
    /\ lastEvent' = Ev("textResize", id, p[1], p[2], size[1], size[2], "")

\* onChange of the textarea
TextChange(id, text) ==
    /\ textBoxes' = SetContent(textBoxes, id, text)
    /\ UNCHANGED << tool, penSize, selectedSticker, showColorPicker,
                    showStickerPicker, stickers, images, scale, isDrawing,
                    activeTextBox, ctxReady, lastPosition, ink, now, pending,
                    objectURLs, urlCount >>
    /\ lastEvent' = Ev("textChange", id, 0, 0, << >>, << >>, text)

\* onClick of a rendered text box
TextBoxClick(id) ==
    /\ id \in Ids(textBoxes)
    /\ activeTextBox' = id
    /\ UNCHANGED << tool, penSize, selectedSticker, showColorPicker,
                    showStickerPicker, stickers, textBoxes, images, scale,
                    isDrawing, ctxReady, lastPosition, ink, now, pending,
                    objectURLs, urlCount >>
    /\ lastEvent' = Ev("textClick", id, 0, 0, << >>, << >>, "")

ImageDragStop(id, p) ==
    /\ images' = MoveTo(images, id, p[1], p[2])
    /\ UNCHANGED << tool, penSize, selectedSticker, showColorPicker,
                    showStickerPicker, stickers, textBoxes, scale, isDrawing,
                    activeTextBox, ctxReady, lastPosition, ink, now, pending,
                    objectURLs, urlCount >>
    /\ lastEvent' = Ev("imageDrag", id, p[1], p[2], << >>, << >>, "")

ImageResizeStop(id, size, p) ==
    /\ images' = ResizeTo(images, id, size[1], size[2], p[1], p[2])
    /\ UNCHANGED << tool, penSize, selectedSticker, showColorPicker,
                    showStickerPicker, stickers, textBoxes, scale, isDrawing,
                    activeTextBox, ctxReady, lastPosition, ink, now, pending,
                    objectURLs, urlCount >>
    /\ lastEvent' = Ev("imageResize", id, p[1], p[2], size[1], size[2], "")

(***************************************************************************)
(* Clipboard image ingestion.                                              *)
(***************************************************************************)
\* A clipboard item: its MIME type, the natural size of the picture it holds
\* and whether the picture decodes.
Item(type, nw, nh, ok) == [type |-> type, nw |-> nw, nh |-> nh, ok |-> ok]

PngA == Item("image/png", 600, 400, TRUE)
JpegB == Item("image/jpeg", 300, 300, TRUE)
Corrupt == Item("image/png", 0, 0, FALSE)
Plain == Item("text/plain", 0, 0, FALSE)

Clipboards == { << >>, <<Plain>>, <<PngA>>, <<Plain, Corrupt>>, <<PngA, JpegB>> }
\* The clipboards and the window sizes drawn on by SpecPaste.
PasteClipboards == { <<Plain>>, <<Plain, Corrupt>>, <<PngA>>, <<JpegB>> }
PasteViewports == {<<1000, 800>>, <<1200, 600>>}

\* items[i].type.indexOf("image") !== -1
IsImageType(type) == type \in {"image/png", "image/jpeg"}

\* StartDecodes without the test of the item's type.
RECURSIVE StartDecodesAllItems(_, _, _)
StartDecodesAllItems(items, first, sc) ==
    IF items = << >> THEN {}
    ELSE { [url |-> first, nw |-> Head(items).nw, nh |-> Head(items).nh,
            ok |-> Head(items).ok, scale |-> sc] }
         \cup StartDecodesAllItems(Tail(items), first + 1, sc)

\* The images a paste starts to decode: one blob URL and one Image per image
\* item, the first URL being number first; onload keeps the scale of the
\* render that registered the listener.
RECURSIVE StartDecodes(_, _, _)
StartDecodes(items, first, sc) ==
    IF items = << >> THEN {}
    ELSE IF IsImageType(Head(items).type)
    THEN { [url |-> first, nw |-> Head(items).nw, nh |-> Head(items).nh,
            ok |-> Head(items).ok, scale |-> sc] }
         \cup StartDecodes(Tail(items), first + 1, sc)
    ELSE StartDecodes(Tail(items), first, sc)

HandlePaste(items) ==
    LET started == StartDecodes(items, urlCount + 1, scale)
    IN  /\ urlCount + Cardinality(started) <= MaxUrls
        /\ pending' = pending \cup started
        /\ objectURLs' = objectURLs \cup { pd.url : pd \in started }
        /\ urlCount' = urlCount + Cardinality(started)
        /\ UNCHANGED << tool, penSize, selectedSticker, showColorPicker,
                        showStickerPicker, stickers, textBoxes, images, scale,
                        isDrawing, activeTextBox, ctxReady, lastPosition, ink,
                        now >>
        /\ lastEvent' = Ev("paste", NullId, Len(items), Cardinality(started),
                           items, << >>, "")

\* NewImage with its top-left corner, not its centre, at the viewport's centre.
NewImageUncentred(id, pd, vp) ==
    [id |-> id,
     x |-> ToCanvas(vp[1] \div 2, pd.scale),
     y |-> ToCanvas(vp[2] \div 2, pd.scale),
     width |-> IMAGE_DEFAULT_WIDTH,
     height |-> (IMAGE_DEFAULT_WIDTH * pd.nh) \div pd.nw, url |-> pd.url]

\* The object img.onload appends; the natural sizes of the inputs divide evenly.
NewImage(id, pd, vp) ==
    LET width == IMAGE_DEFAULT_WIDTH
        height == (width * pd.nh) \div pd.nw
    IN  [id |-> id,
         x |-> ToCanvas(vp[1] \div 2, pd.scale) - width \div 2,
         y |-> ToCanvas(vp[2] \div 2, pd.scale) - height \div 2,
         width |-> width, height |-> height, url |-> pd.url]

ImgOnload(pd, vp) ==
    /\ pd \in pending
    /\ pd.ok
    /\ Placed < MaxObjs
    /\ images' = Append(images, NewImage(now, pd, vp))
    /\ pending' = pending \ {pd}
    /\ UNCHANGED << tool, penSize, selectedSticker, showColorPicker,
                    showStickerPicker, stickers, textBoxes, scale, isDrawing,
                    activeTextBox, ctxReady, lastPosition, ink, now, objectURLs,
                    urlCount >>
    /\ lastEvent' = Ev("imgLoad", pd.url, vp[1], vp[2], << >>, << >>, "")

\* The decode fails: the Image has no onerror handler, nothing runs.
ImgError(pd) ==
    /\ pd \in pending
    /\ ~pd.ok
    /\ pending' = pending \ {pd}
    /\ UNCHANGED << tool, penSize, selectedSticker, showColorPicker,
                    showStickerPicker, stickers, textBoxes, images, scale,
                    isDrawing, activeTextBox, ctxReady, lastPosition, ink, now,
                    objectURLs, urlCount >>
    /\ lastEvent' = Ev("imgError", pd.url, 0, 0, << >>, << >>, "")

\* Toolbar, pickers and zoom.
NextZoom ==
    \/ \E t \in Tools : HandleToolChange(t)
    \/ \E k \in StickerKinds : StickerPick(k)
    \/ \E n \in PenSizes : SetPenSize(n)
    \/ \E dir \in {"in", "out"} : HandleZoom(dir)
    \/ Tick

SpecZoom == Init /\ [][NextZoom]_vars

\* Strokes: toolbar, pen size and the pointer on the canvas.
NextPen ==
    \/ \E t \in Tools : HandleToolChange(t)
    \/ \E n \in PenSizes : SetPenSize(n)
    \/ \E d \in ClientPoints(scale) : StartDrawing(d)
    \/ \E d \in ClientPoints(scale) : MouseMove(d)
    \/ \E op \in {"mouseup", "mouseleave"} : StopDrawing(op)

SpecPen == Init /\ [][NextPen]_vars

\* The state after construction when getContext("2d") gave a context.
InitReady == Init /\ ctxReady

\* Erasing: objects of the three kinds are placed, a sticker and a text box
\* dragged, the eraser clicked and moved with either pen size.
NextErase ==
    \/ \E t \in Tools : HandleToolChange(t)
    \/ StickerPick("fas fa-heart")
    \/ \E n \in PenSizes : SetPenSize(n)
    \/ HandlePaste(<<PngA>>)
    \/ \E pd \in pending, vp \in Viewports : ImgOnload(pd, vp)
    \/ \E d \in ClientPoints(scale) : MouseMove(d)
    \/ \E d \in ClientPoints(scale) : HandleCanvasClick(d)
    \/ \E id \in Ids(stickers) : StickerDragStop(id, <<581, 283>>)
    \/ \E id \in Ids(textBoxes) : TextDragStop(id, <<525, 275>>)

SpecErase == InitReady /\ [][NextErase]_vars

\* Placement under zoom.
NextPlace ==
    \/ \E t \in {"sticker", "text", "none"} : HandleToolChange(t)
    \/ \E k \in StickerKinds : StickerPick(k)
    \/ \E d \in ClientPoints(scale) : HandleCanvasClick(d)
    \/ \E dir \in {"in", "out"} : HandleZoom(dir)

SpecPlace == Init /\ [][NextPlace]_vars

\* Zoom over a board with stickers, text boxes with content and images; the
\* pictures are pasted before the first zoom request.
NextZoomed ==
    \/ \E t \in {"sticker", "text"} : HandleToolChange(t)
    \/ StickerPick("fas fa-heart")
    \/ \E d \in ClientPoints(scale) : HandleCanvasClick(d)
    \/ \E id \in Ids(textBoxes) : TextChange(id, "a")
    \/ scale = DblOne /\ HandlePaste(<<PngA>>)
    \/ \E pd \in pending, vp \in Viewports : ImgOnload(pd, vp)
    \/ \E dir \in {"in", "out"} : HandleZoom(dir)

SpecZoomed == InitReady /\ [][NextZoomed]_vars

\* Geometry of placed stickers and text boxes: drag and resize.
NextGeometry ==
    \/ \E t \in {"sticker", "text"} : HandleToolChange(t)
    \/ StickerPick("fas fa-heart")
    \/ HandleCanvasClick(ClientPoint(<<60, 80>>, scale))
    \/ \E id \in Ids(stickers), p \in DragPoints : StickerDragStop(id, p)
    \/ \E id \in Ids(stickers), sz \in {<<Px20_5, Px10>>, <<Px0, Auto>>} :
            StickerResizeStop(id, sz, <<525, 275>>)
    \/ \E id \in Ids(textBoxes), p \in DragPoints : TextDragStop(id, p)
    \/ \E id \in Ids(textBoxes), sz \in {<<Px20_5, Px10>>, <<Px0, Auto>>} :
            TextResizeStop(id, sz, <<525, 275>>)
    \/ Tick

SpecGeometry == InitReady /\ [][NextGeometry]_vars

\* Gestures and edits that end after their object was erased.
NextInFlight ==
    \/ \E t \in {"text", "eraser"} : HandleToolChange(t)
    \/ HandlePaste(<<PngA>>)
    \/ \E pd \in pending, vp \in Viewports : ImgOnload(pd, vp)
    \/ HandleCanvasClick(ClientPoint(<<600, 300>>, scale))
    \/ \E id \in 0 .. now : ImageDragStop(id, <<525, 275>>)
    \/ \E id \in 0 .. now : ImageResizeStop(id, <<Px20_5, Px10>>, <<525, 275>>)
    \/ \E id \in 0 .. now : TextDragStop(id, <<525, 275>>)
    \/ \E id \in 0 .. now : TextChange(id, "a")
    \/ Tick

SpecInFlight == InitReady /\ [][NextInFlight]_vars

\* Pasting: payloads that are images, are none or do not decode, with
\* zoom-out requests between the paste and the end of the decode.
NextPaste ==
    \/ \E items \in PasteClipboards : HandlePaste(items)
    \/ \E pd \in pending, vp \in PasteViewports : ImgOnload(pd, vp)
    \/ \E pd \in pending : ImgError(pd)
    \/ HandleZoom("out")

SpecPaste == InitReady /\ [][NextPaste]_vars

\* The canvas pixel p lies under no placed object: the objects are rendered
\* above the canvas, so only there does a pointer event reach the canvas.
OnCanvas(p) ==
    LET Covers(o) == /\ o.x <= p[1] /\ p[1] < o.x + o.width
                     /\ o.y <= p[2] /\ p[2] < o.y + o.height
    IN  /\ \A i \in 1 .. Len(stickers) : ~Covers(stickers[i])
        /\ \A i \in 1 .. Len(textBoxes) : ~Covers(textBoxes[i])
        /\ \A i \in 1 .. Len(images) : ~Covers(images[i])

\* Canvas pixels for a text box and for the eraser just below that box.
ActiveTargets == {<<600, 300>>, <<675, 355>>}

\* The active text box: text boxes are placed, clicked, edited and erased
\* with the widest eraser, the pointer on the bare canvas.
NextActive ==
    \/ \E t \in {"pen", "text", "eraser"} : HandleToolChange(t)
    \/ SetPenSize(20)
    \/ \E p \in ActiveTargets :
            OnCanvas(p) /\ HandleCanvasClick(ClientPoint(p, scale))
    \/ \E id \in Ids(textBoxes) : TextBoxClick(id)
    \/ \E id \in Ids(textBoxes) : TextChange(id, "a")
    \/ Tick

SpecActive == InitReady /\ [][NextActive]_vars

\* Ids and blob URLs: every way an object is added or removed.
NextLifetime ==
    \/ \E t \in {"sticker", "text", "eraser"} : HandleToolChange(t)
    \/ StickerPick("fas fa-heart")
    \/ \E items \in Clipboards : HandlePaste(items)
    \/ \E pd \in pending, vp \in Viewports : ImgOnload(pd, vp)
    \/ \E pd \in pending : ImgError(pd)
    \/ \E d \in ClientPoints(scale) : HandleCanvasClick(d)
    \/ Tick

SpecLifetime == Init /\ [][NextLifetime]_vars


(***************************************************************************)
(* Properties.                                                             *)
(***************************************************************************)
\* The canvas pixel under the pointer of a pointer event.
Under(e) == CHOOSE p \in CanvasTargets : ClientPoint(p, scale) = <<e.x, e.y>>

\* The handler of the step applies the eraser.
EraserApplies(e) == e.op \in {"click", "mousemove"} /\ tool = "eraser" /\ ctxReady

\* Four times the squared distance from the centre of o to c.
CentreDist4(o, c) ==
    (2 * o.x + o.width - 2 * c[1]) * (2 * o.x + o.width - 2 * c[1])
    + (2 * o.y + o.height - 2 * c[2]) * (2 * o.y + o.height - 2 * c[2])

\* The centre of o is strictly farther than r from c (never so for a centre
\* that is not a number).
Outside(o, c, r) ==
    o.width # NaN /\ o.height # NaN /\ CentreDist4(o, c) > 4 * r * r

\* after holds exactly the objects of before that are outside the circle.
ErasedTo(before, after, c, r) ==
    /\ \A j \in 1 .. Len(after) :
          Outside(after[j], c, r) /\ \E i \in 1 .. Len(before) : before[i] = after[j]
    /\ \A i \in 1 .. Len(before) :
          Outside(before[i], c, r) => \E j \in 1 .. Len(after) : after[j] = before[i]
    /\ Len(after) = Cardinality({ i \in 1 .. Len(before) : Outside(before[i], c, r) })

\* C1: whenever the eraser is applied at canvas point c with pen size p, each of
\* the three collections keeps exactly the objects whose centre
\* (x + width/2, y + height/2) is strictly farther than 2 * p from c; an object
\* at distance 2 * p or less is removed, whatever its extent.
C1_EraseInvariant ==
    [][EraserApplies(lastEvent') =>
          /\ ErasedTo(stickers, stickers', Under(lastEvent'), 2 * penSize)
          /\ ErasedTo(textBoxes, textBoxes', Under(lastEvent'), 2 * penSize)
          /\ ErasedTo(images, images', Under(lastEvent'), 2 * penSize)]_vars

\* The eraser has removed a sticker whose centre is exactly 2 * penSize away,
\* and another object is left.
C1_Witness ==
    /\ lastEvent.op \in {"click", "mousemove"}
    /\ tool = "eraser"
    /\ ctxReady
    /\ \E o \in lastEvent.removed[1] :
          CentreDist4(o, Under(lastEvent)) = 4 * (2 * penSize) * (2 * penSize)
    /\ Placed >= 1

\* C2: no two objects of a collection share an id.
C2_UniqueIds ==
    /\ \A i, j \in 1 .. Len(stickers) : i # j => stickers[i].id # stickers[j].id
    /\ \A i, j \in 1 .. Len(textBoxes) : i # j => textBoxes[i].id # textBoxes[j].id
    /\ \A i, j \in 1 .. Len(images) : i # j => images[i].id # images[j].id

\* C3: every placed object has a width and a height above zero.
C3_PositiveSize ==
    /\ \A i \in 1 .. Len(stickers) : stickers[i].width > 0 /\ stickers[i].height > 0
    /\ \A i \in 1 .. Len(textBoxes) : textBoxes[i].width > 0 /\ textBoxes[i].height > 0
    /\ \A i \in 1 .. Len(images) : images[i].width > 0 /\ images[i].height > 0

\* C4: the zoom factor stays within [0.5, 3.0].
C4_ZoomInRange == ~DblLess(scale, DblHalf) /\ ~DblLess(DblThree, scale)

\* C5: the blob URL of an image is released when the eraser removes the image:
\* live while its image is decoded or placed, revoked once the image is gone.
C5_ReleasedOnRemoval ==
    /\ \A i \in 1 .. Len(images) : images[i].url \in objectURLs
    /\ \A pd \in pending : pd.url \in objectURLs
    /\ \A o \in lastEvent.removed[3] : o.url \notin objectURLs

\* The length a style string reports, in tenths of a pixel; NaN when the string
\* is no length.
ReportedTenths(str) ==
    CASE str = Px10 -> 100
      [] str = Px0 -> 0
      [] str = Px20_5 -> 205
      [] OTHER -> NaN

Times10(v) == IF v = NaN THEN NaN ELSE 10 * v

\* The objects with the target id of a resize hold the reported geometry.
HoldsReported(seq, e) ==
    \A i \in 1 .. Len(seq) :
        seq[i].id = e.id =>
            /\ seq[i].x = e.x
            /\ seq[i].y = e.y
            /\ Times10(seq[i].width) = ReportedTenths(e.w)
            /\ Times10(seq[i].height) = ReportedTenths(e.h)

\* C6 as stated: after a resize-stop the stored x, y, width and height of its
\* target equal the position and the dimensions the resize reports.
C6_StoresReported ==
    /\ lastEvent.op = "stickerResize" => HoldsReported(stickers, lastEvent)
    /\ lastEvent.op = "textResize" => HoldsReported(textBoxes, lastEvent)

\* The event is a move, resize or edit whose target id is not in its collection.
TargetAbsent(e) ==
    \/ e.op \in {"stickerDrag", "stickerResize"} /\ e.id \notin Ids(stickers)
    \/ e.op \in {"textDrag", "textResize", "textChange"} /\ e.id \notin Ids(textBoxes)
    \/ e.op \in {"imageDrag", "imageResize"} /\ e.id \notin Ids(images)

\* C7: a move, resize or text edit whose target id is no longer in its
\* collection changes no collection: nothing is re-created, nothing else is
\* modified.
C7_AbsentTargetNoOp ==
    [][TargetAbsent(lastEvent') =>
          /\ stickers' = stickers
          /\ textBoxes' = textBoxes
          /\ images' = images]_vars

\* The only image placed so far (id 0, the clock has not moved) was erased, a
\* drag-stop of it arrives, and a text box is on the board.
C7_Witness ==
    /\ lastEvent.op = "imageDrag"
    /\ lastEvent.id = 0
    /\ now = 0
    /\ urlCount >= 1
    /\ pending = {}
    /\ images = << >>
    /\ textBoxes # << >>

\* after is before with one object appended.
Appended(before, after) ==
    /\ Len(after) = Len(before) + 1
    /\ \A i \in 1 .. Len(before) : after[i] = before[i]

\* C8: a click while tool = sticker with a kind pre-selected appends exactly one
\* sticker of that kind at the canvas point under the pointer, 50 by 50, and
\* leaves tool = none and no kind selected; a click with tool = none, or with
\* no kind selected, inserts nothing.
C8_SingleShotSticker ==
    [][lastEvent'.op = "click" =>
          IF tool = "sticker" /\ selectedSticker # ""
          THEN /\ Appended(stickers, stickers')
               /\ stickers'[Len(stickers')].type = selectedSticker
               /\ stickers'[Len(stickers')].x = Under(lastEvent')[1]
               /\ stickers'[Len(stickers')].y = Under(lastEvent')[2]
               /\ stickers'[Len(stickers')].width = 50
               /\ stickers'[Len(stickers')].height = 50
               /\ textBoxes' = textBoxes
               /\ images' = images
               /\ tool' = "none"
               /\ selectedSticker' = ""
          ELSE tool \in {"none", "sticker"} =>
               /\ stickers' = stickers
               /\ textBoxes' = textBoxes
               /\ images' = images]_vars

\* A click under a zoom other than 1 has just placed a sticker.
C8_Witness ==
    /\ lastEvent.op = "click"
    /\ lastEvent.added = 1
    /\ textBoxes = << >>
    /\ scale # DblOne
    /\ stickers # << >>
    /\ stickers[Len(stickers)].x = Under(lastEvent)[1]
    /\ tool = "none"
    /\ selectedSticker = ""

\* C9: a click while tool = text appends exactly one text box, empty, 150 by 50,
\* at the canvas point under the pointer, makes it the active text box and
\* resets tool to none.
C9_TextPlacement ==
    [][lastEvent'.op = "click" /\ tool = "text" =>
          /\ Appended(textBoxes, textBoxes')
          /\ textBoxes'[Len(textBoxes')].content = ""
          /\ textBoxes'[Len(textBoxes')].x = Under(lastEvent')[1]
          /\ textBoxes'[Len(textBoxes')].y = Under(lastEvent')[2]
          /\ textBoxes'[Len(textBoxes')].width = 150
          /\ textBoxes'[Len(textBoxes')].height = 50
          /\ activeTextBox' = textBoxes'[Len(textBoxes')].id
          /\ stickers' = stickers
          /\ images' = images
          /\ tool' = "none"]_vars

\* A click under a zoom other than 1 has just placed a text box, now active.
C9_Witness ==
    /\ lastEvent.op = "click"
    /\ lastEvent.added = 1
    /\ stickers = << >>
    /\ scale # DblOne
    /\ textBoxes # << >>
    /\ textBoxes[Len(textBoxes)].x = Under(lastEvent)[1]
    /\ activeTextBox = textBoxes[Len(textBoxes)].id
    /\ tool = "none"

\* C10: once the tool is switched away from pen the stroke is finalized: no
\* stroke is in progress and no last point is kept.
C10_SwitchEndsStroke ==
    lastEvent.op = "toolChange" /\ tool # "pen" =>
        ~isDrawing /\ lastPosition = NoPoint

\* The raster surface, StrokeState, the registries and the tool.
Board == << ink, isDrawing, lastPosition, stickers, textBoxes, images, tool >>

StopOps == {"mouseup", "mouseleave"}

\* C11: endStroke (pointer-up or pointer-leave) is idempotent: called right
\* after an endStroke, or with no stroke in progress, it leaves the raster
\* surface, StrokeState, the registries and the tool as they are; called with a
\* stroke in progress it clears StrokeState and changes nothing else.
C11_EndStrokeIdempotent ==
    [][lastEvent'.op \in StopOps =>
          /\ lastEvent.op \in StopOps => Board' = Board
          /\ ~isDrawing /\ lastPosition = NoPoint => Board' = Board
          /\ ~isDrawing' /\ lastPosition' = NoPoint
          /\ << ink, stickers, textBoxes, images, tool >>'
                = << ink, stickers, textBoxes, images, tool >>]_vars

\* A pointer-up arrived with no stroke in progress, after a stroke was drawn
\* and ended.
C11_Witness ==
    /\ lastEvent.op = "mouseup"
    /\ lastEvent.text = "idle"
    /\ tool = "pen"
    /\ ink # {}
    /\ ~isDrawing

\* C15: with tool = eraser a pointer-move with no button pressed (the move
\* that follows a pointer-up) leaves the raster surface and the registries
\* unchanged.
C15_EraserNeedsButton ==
    [][lastEvent.op = "mouseup" /\ lastEvent'.op = "mousemove" /\ tool = "eraser" =>
          << ink, stickers, textBoxes, images >>'
              = << ink, stickers, textBoxes, images >>]_vars

\* C17: a pointer-move with tool = pen and no stroke in progress adds no ink and
\* leaves StrokeState, the tool and the registries unchanged; a pointer-down
\* while the tool is not pen starts no stroke.
C17_NoStrokeNoInk ==
    [][/\ lastEvent'.op = "mousemove" /\ tool = "pen" /\ ~isDrawing => Board' = Board
       /\ lastEvent'.op = "mousedown" /\ tool # "pen" => Board' = Board]_vars

\* After a stroke was drawn and ended, the pointer moves over the canvas with
\* the pen selected and no stroke in progress.
C17_Witness ==
    /\ lastEvent.op = "mousemove"
    /\ tool = "pen"
    /\ ctxReady
    /\ ~isDrawing
    /\ ink # {}

\* C18: while the canvas has no drawing context no stroke is in progress, no
\* last point is kept and the raster surface holds no ink, whatever pointer
\* events arrive.
C18_NoContextNoOp ==
    ~ctxReady => ~isDrawing /\ lastPosition = NoPoint /\ ink = {}

\* A pointer-down with the pen selected arrived while there is no context.
C18_Witness ==
    /\ ~ctxReady
    /\ lastEvent.op = "mousedown"
    /\ tool = "pen"
    /\ ~isDrawing

\* C14: a zoom-in request raises the zoom by one step of 0.1 when the result
\* stays within 3.0 and otherwise leaves the zoom as it is; a zoom-out request
\* lowers it by one step when the result stays at or above 0.5 and otherwise
\* leaves it as it is.
C14_StepOrClamp ==
    [][lastEvent'.op = "zoom" =>
          LET up == DblAdd(scale, DblTenth)
              down == DblSub(scale, DblTenth)
          IN  IF lastEvent'.text = "in"
              THEN scale' = IF DblLess(DblThree, up) THEN scale ELSE up
              ELSE scale' = IF DblLess(down, DblHalf) THEN scale ELSE down]_vars

\* The centre of o, scaled by the zoom of t tenths, is the centre of a
\* viewport vw by vh, to the nearest canvas pixel.
Centred(o, vw, vh, t) ==
    /\ (2 * o.x + o.width) * t - 10 * vw <= t
    /\ 10 * vw - (2 * o.x + o.width) * t <= t
    /\ (2 * o.y + o.height) * t - 10 * vh <= t
    /\ 10 * vh - (2 * o.y + o.height) * t <= t

\* The decode that ends with the event e.
DecodeOf(e) == CHOOSE pd \in pending : pd.url = e.id

\* C12: an image of natural size nw by nh that is inserted with viewport vw by
\* vh, z being the zoom its paste was handled under, is appended with
\* width = 300, height = 300 * nh / nw, x = vw/2/z - width/2 and
\* y = vh/2/z - height/2; 600 by 400 in a viewport of 1000 by 800 at zoom 1.0
\* gives width 300, height 200, x 350, y 300.
C12_PastedGeometry ==
    [][lastEvent'.op = "imgLoad" =>
          LET pd == DecodeOf(lastEvent')
              o == images'[Len(images')]
          IN  /\ Appended(images, images')
              /\ o.width = 300
              /\ o.height * pd.nw = 300 * pd.nh
              /\ Centred(o, lastEvent'.x, lastEvent'.y, Tenths(pd.scale))
              /\ (/\ pd.nw = 600
                  /\ pd.nh = 400
                  /\ lastEvent'.x = 1000
                  /\ lastEvent'.y = 800
                  /\ pd.scale = DblOne)
                    => o.x = 350 /\ o.y = 300 /\ o.height = 200]_vars

\* The 600 by 400 image was inserted with a viewport of 1000 by 800 at zoom 1.0.
C12_Witness ==
    /\ lastEvent.op = "imgLoad"
    /\ lastEvent.x = 1000
    /\ lastEvent.y = 800
    /\ scale = DblOne
    /\ images # << >>
    /\ images[Len(images)].url = lastEvent.id
    /\ images[Len(images)].x = 350
    /\ images[Len(images)].y = 300
    /\ images[Len(images)].height = 200

\* The number of image payloads among the items of a clipboard.
ImagePayloads(items) ==
    Cardinality({ i \in 1 .. Len(items) : items[i].type # "text/plain" })

\* C13: a paste event inserts nothing by itself and starts one decode per image
\* payload, none for another payload; a decode that fails inserts nothing; a
\* decode that succeeds appends exactly one complete image and is then over,
\* also after earlier payloads were ignored or failed to decode.
C13_PasteErrors ==
    [][/\ lastEvent'.op = "paste" =>
             /\ << stickers, textBoxes, images >>' = << stickers, textBoxes, images >>
             /\ pending \subseteq pending'
             /\ Cardinality(pending' \ pending) = ImagePayloads(lastEvent'.w)
       /\ lastEvent'.op = "imgError" =>
             /\ << stickers, textBoxes, images >>' = << stickers, textBoxes, images >>
             /\ pending' = pending \ {DecodeOf(lastEvent')}
       /\ lastEvent'.op = "imgLoad" =>
             /\ Appended(images, images')
             /\ images'[Len(images')].url = lastEvent'.id
             /\ images'[Len(images')].width > 0
             /\ images'[Len(images')].height > 0
             /\ DecodeOf(lastEvent').ok
             /\ pending' = pending \ {DecodeOf(lastEvent')}
             /\ << stickers, textBoxes >>' = << stickers, textBoxes >>]_vars

\* The first image payload failed to decode and the image of a later paste is
\* now the only image on the board.
C13_Witness ==
    /\ lastEvent.op = "imgLoad"
    /\ lastEvent.id = 2
    /\ urlCount = 2
    /\ pending = {}
    /\ Len(images) = 1
    /\ images[1].url = 2

\* C16: an image that is inserted is centred on the viewport under the zoom
\* that is current when it is inserted.
C16_CentredAtCurrentZoom ==
    [][lastEvent'.op = "imgLoad" =>
          Centred(images'[Len(images')], lastEvent'.x, lastEvent'.y,
                  Tenths(scale'))]_vars

\* The canvas coordinate p is the client offset d divided by the zoom of t
\* tenths, to the nearest pixel, and that zoom maps p back to d.
StoredFor(p, d, sc) ==
    /\ 2 * (10 * d - p * Tenths(sc)) <= Tenths(sc)
    /\ 2 * (p * Tenths(sc) - 10 * d) <= Tenths(sc)
    /\ ToClient(p, sc) = d

\* C19: a zoom request leaves every sticker, text box and image as it is
\* (geometry, content, order); a click that places an object at client offset
\* d under zoom z stores the point d / z, which the same zoom maps back to d.
C19_ZoomInvariantGeometry ==
    [][/\ lastEvent'.op = "zoom" =>
             << stickers, textBoxes, images >>' = << stickers, textBoxes, images >>
       /\ lastEvent'.op = "click" /\ lastEvent'.added = 1 =>
             LET o == IF Len(stickers') > Len(stickers)
                      THEN stickers'[Len(stickers')]
                      ELSE textBoxes'[Len(textBoxes')]
             IN  /\ StoredFor(o.x, lastEvent'.x, scale)
                 /\ StoredFor(o.y, lastEvent'.y, scale)]_vars

\* A zoom request has just changed the zoom over a board that holds a sticker
\* placed before it and an image.
C19_Witness ==
    /\ lastEvent.op = "zoom"
    /\ scale # DblOne
    /\ stickers # << >>
    /\ images # << >>

\* a is b with some elements left out, the others in the order of b.
RECURSIVE IsSubSeq(_, _)
IsSubSeq(a, b) ==
    IF a = << >> THEN TRUE
    ELSE IF b = << >> THEN FALSE
    ELSE IF Head(a) = Head(b) THEN IsSubSeq(Tail(a), Tail(b))
    ELSE IsSubSeq(a, Tail(b))

\* One step of a collection that keeps insertion order: a new object comes
\* last, an update leaves every object in its place, a removal leaves the
\* others in their order.
OrderKept(before, after, e) ==
    IF Len(after) > Len(before) THEN Appended(before, after)
    ELSE IF e.op \in {"click", "mousemove"} THEN IsSubSeq(after, before)
    ELSE /\ Len(after) = Len(before)
         /\ \A i \in 1 .. Len(before) : after[i].id = before[i].id

\* C20: each collection keeps insertion order: a new object is appended at the
\* end, and erasing, moving, resizing or editing never changes the relative
\* order of the objects that remain.
C20_InsertionOrder ==
    [][/\ OrderKept(stickers, stickers', lastEvent')
       /\ OrderKept(textBoxes, textBoxes', lastEvent')
       /\ OrderKept(images, images', lastEvent')]_vars

\* The older of two text boxes was just dragged and is still the first.
C20_Witness ==
    /\ lastEvent.op = "textDrag"
    /\ Len(textBoxes) = 2
    /\ textBoxes[1].id = lastEvent.id
    /\ textBoxes[2].id # lastEvent.id
    /\ textBoxes[1].x = lastEvent.x
    /\ textBoxes[2].x # lastEvent.x

\* C21: a last point is recorded if and only if a stroke is in progress, and a
\* stroke is in progress only while the active tool is pen.
C21_StrokeStateConsistent ==
    /\ lastPosition # NoPoint <=> isDrawing
    /\ isDrawing => tool = "pen"

\* C22: the active text box is null or the id of a text box that is in the
\* collection.
C22_ActiveTextBoxPresent ==
    activeTextBox = NullId \/ activeTextBox \in Ids(textBoxes)

====
